---- MODULE Spec2Model ----
(***************************************************************************)
(* The calculator tool of src/src/app/tools/calculator.py (duplicated in   *)
(* src/agent.py): calculator(expression) parses the text with ast.parse,   *)
(* walks the tree with _eval and renders the float it gets, or the text of *)
(* the exception it caught.                                                *)
(*                                                                         *)
(* Python floats are modelled by a decimal floating-point format of the    *)
(* same kind as binary64 but narrower: Digits significant digits, a        *)
(* smallest exponent -ExpLow (gradual underflow to zero) and a largest     *)
(* exponent MaxExp (overflow), with inf, nan and round-half-even.  The     *)
(* sign of zero is not kept: no output of calculator depends on it.        *)
(***************************************************************************)
EXTENDS Integers, Sequences, FiniteSets, TLC

\* ---------------------------------------------------------------- bounds
\* significant decimal digits of a float (binary64: 53 bits)
Digits == 3
\* the smallest positive float is 10^-ExpLow (binary64: 5e-324)
ExpLow == 6
\* the largest float is (10^Digits - 1) * 10^MaxExp (binary64: 1.8e308)
MaxExp == 2
\* frames of _eval the interpreter allows (sys.getrecursionlimit())
RecursionLimit == 6
\* nodes of the expression trees the inputs are written from
MaxNodes == 5
\* tokens of the unstructured input texts
MaxTokens == 3

\* ------------------------------------------------------- integer helpers
Abs(n) == IF n < 0 THEN -n ELSE n

Sgn(n) == IF n < 0 THEN -1 ELSE IF n > 0 THEN 1 ELSE 0

Max(a, b) == IF a >= b THEN a ELSE b

Min(a, b) == IF a <= b THEN a ELSE b

RECURSIVE Pow10(_)
Pow10(k) == IF k <= 0 THEN 1 ELSE 10 * Pow10(k - 1)

RECURSIVE NumDigits(_)
\* decimal digits of n >= 0 (0 has none)
NumDigits(n) == IF n = 0 THEN 0 ELSE 1 + NumDigits(n \div 10)

\* ------------------------------------------------------------ the floats
\* A float is [k, m, e]: k = "fin" is the number m * 10^e, kept canonical
\* (m has no trailing zero; zero is m = 0, e = 0); k = "inf" carries its
\* sign in m; k = "nan"; k = "complex" is a value of Python's complex type,
\* whose components the model does not keep.
Fin(m, e) == [k |-> "fin", m |-> m, e |-> e]

Zero == Fin(0, 0)

Inf(s) == [k |-> "inf", m |-> s, e |-> 0]

NaN == [k |-> "nan", m |-> 0, e |-> 0]

Complex == [k |-> "complex", m |-> 0, e |-> 0]

\* what an operation of the format yields when the result is out of range
Ovf(s) == [k |-> "ovf", m |-> s, e |-> 0]

RECURSIVE Strip(_, _)
\* the canonical float of m * 10^e, m >= 0
Strip(m, e) ==
    IF m = 0 THEN Zero
    ELSE IF m % 10 = 0 THEN Strip(m \div 10, e + 1)
    ELSE Fin(m, e)

\* M * 10^E rounded to the format: round-half-even to Digits digits and to a
\* multiple of 10^-ExpLow; Ovf when the rounded value is out of range.
Round(M, E) ==
    LET A == Abs(M)
        nd == NumDigits(A)
        drop == Max(Max(nd - Digits, (0 - ExpLow) - E), 0)
    IN  IF A = 0 \/ drop > nd THEN Zero
        ELSE LET p == Pow10(drop)
                 q == A \div p
                 r == A % p
                 up == drop > 0 /\ (2 * r > p \/ (2 * r = p /\ q % 2 = 1))
                 c == Strip(IF up THEN q + 1 ELSE q, E + drop)
             IN  IF c.m = 0 THEN Zero
                 ELSE IF NumDigits(c.m) + c.e > Digits + MaxExp THEN Ovf(Sgn(M))
                 ELSE Fin(Sgn(M) * c.m, c.e)

IsFin(v) == v.k = "fin"

IsZero(v) == v.k = "fin" /\ v.m = 0

\* -1, 0, 1: the sign of a finite or infinite float
Sign(v) == Sgn(v.m)

\* position of the leading digit of a non-zero finite float
Lead(v) == NumDigits(Abs(v.m)) + v.e

\* |a| < |b| for finite floats
AbsLess(a, b) ==
    IF b.m = 0 THEN FALSE
    ELSE IF a.m = 0 THEN TRUE
    ELSE IF Lead(a) # Lead(b) THEN Lead(a) < Lead(b)
    ELSE LET e0 == Min(a.e, b.e)
         IN  Abs(a.m) * Pow10(a.e - e0) < Abs(b.m) * Pow10(b.e - e0)

\* a < b for finite floats
Less(a, b) ==
    IF Sign(a) # Sign(b) THEN Sign(a) < Sign(b)
    ELSE IF Sign(a) >= 0 THEN AbsLess(a, b)
    ELSE AbsLess(b, a)

Neg(v) == IF v.k \in {"fin", "inf"} THEN [v EXCEPT !.m = 0 - v.m] ELSE v

\* an integer value: m * 10^e with e >= 0
IsIntegral(v) == v.k = "fin" /\ (v.m = 0 \/ v.e >= 0)

\* the integer a finite integral float stands for
IntOf(v) == v.m * Pow10(v.e)

\* out-of-range results of +, -, *, / become infinities
Saturate(v) == IF v.k = "ovf" THEN Inf(v.m) ELSE v

\* a + b for finite floats, correctly rounded
FinAdd(a, b) ==
    IF a.m = 0 THEN b
    ELSE IF b.m = 0 THEN a
    ELSE LET big == IF Lead(a) >= Lead(b) THEN a ELSE b
             small == IF Lead(a) >= Lead(b) THEN b ELSE a
             gap == Lead(big) - Lead(small)
             e0 == Min(a.e, b.e)
         IN  IF gap >= Digits + 2
             THEN \* small is below a hundredth of an ulp of big: a sticky unit
                  Round(big.m * Pow10(Digits + 2 - NumDigits(Abs(big.m))) + Sgn(small.m),
                        Lead(big) - Digits - 2)
             ELSE Round(a.m * Pow10(a.e - e0) + b.m * Pow10(b.e - e0), e0)

FinMul(a, b) == Round(a.m * b.m, a.e + b.e)

RECURSIVE LongDiv(_, _, _, _)
\* k more digits of the quotient q with remainder r of a division by d
LongDiv(q, r, d, k) ==
    IF k = 0 THEN <<q, r>>
    ELSE LongDiv(10 * q + ((10 * r) \div d), (10 * r) % d, d, k - 1)

\* a / b for finite floats, b # 0, correctly rounded
FinDiv(a, b) ==
    LET A == Abs(a.m)
        B == Abs(b.m)
        k == Digits + 1 + Max(0, NumDigits(B) - NumDigits(A) + 1)
        qr == LongDiv(A \div B, A % B, B, k)
        q == IF qr[2] # 0 /\ qr[1] % 5 = 0 THEN qr[1] + 1 ELSE qr[1]
    IN  IF A = 0 THEN Zero
        ELSE Round(Sgn(a.m) * Sgn(b.m) * q, a.e - b.e - k)

RECURSIVE ModScaled(_, _, _)
\* (x * 10^k) mod d
ModScaled(x, d, k) == IF k = 0 THEN x % d ELSE ModScaled((10 * (x % d)) % d, d, k - 1)

\* C's fmod(a, b) for finite floats, b # 0: a - b * trunc(a / b), exact,
\* with the sign of a
FinFmod(a, b) ==
    LET A == Abs(a.m)
        B == Abs(b.m)
        r == IF a.e >= b.e
             THEN Fin(ModScaled(A, B, a.e - b.e), b.e)
             ELSE Fin(A % (B * Pow10(b.e - a.e)), a.e)
        c == Strip(r.m, r.e)
    IN  IF AbsLess(a, b) THEN a
        ELSE Fin(Sgn(a.m) * c.m, c.e)

RECURSIVE Isqrt(_, _, _)
\* the integer square root of n, searched between lo and hi
Isqrt(n, lo, hi) ==
    IF lo >= hi THEN lo
    ELSE LET mid == (lo + hi + 1) \div 2
         IN  IF mid * mid <= n THEN Isqrt(n, mid, hi) ELSE Isqrt(n, lo, mid - 1)

\* the square root of a positive finite float, rounded to nearest: q is the
\* integer root of n, and the root of n is above q + 1/2 when n > q^2 + q
FinSqrt(v) ==
    LET m1 == IF v.e % 2 = 0 THEN v.m ELSE 10 * v.m
        e1 == IF v.e % 2 = 0 THEN v.e ELSE v.e - 1
        t == Max(0, (2 * Digits - NumDigits(m1)) \div 2)
        n == m1 * Pow10(2 * t)
        q == Isqrt(n, 0, Pow10(Digits))
    IN  Round(IF n > q * q + q THEN q + 1 ELSE q, (e1 \div 2) - t)

RECURSIVE PowNat(_, _)
\* x^n for a positive finite float x and n >= 0, by squaring, each product
\* rounded; Ovf once a product is out of range
PowNat(x, n) ==
    IF n = 0 THEN Fin(1, 0)
    ELSE IF n % 2 = 1
         THEN LET p == PowNat(x, n - 1)
              IN  IF p.k = "ovf" THEN p ELSE FinMul(x, p)
         ELSE LET h == PowNat(x, n \div 2)
              IN  IF h.k = "ovf" THEN h ELSE FinMul(h, h)

\* x^n for a positive finite float x and any integer n; x^-n is 1 / x^n
PowInt(x, n) ==
    IF n >= 0 THEN PowNat(x, n)
    ELSE LET p == PowNat(x, 0 - n)
         IN  IF p.k = "ovf" THEN Zero
             ELSE IF p.m = 0 THEN Ovf(1)
             ELSE FinDiv(Fin(1, 0), p)

\* x^(j/2) for a positive finite float x
PowHalf(x, j) ==
    IF j % 2 = 0 THEN PowInt(x, j \div 2)
    ELSE LET s == FinSqrt(x)
         IN  IF s.m = 0 THEN (IF j > 0 THEN Zero ELSE Ovf(1)) ELSE PowInt(s, j)

\* floor(2 * y) for a finite float y that is not an integer
Floor2(y) ==
    LET p == Pow10(0 - y.e)
    IN  IF 0 - y.e > Digits + 1 THEN (IF y.m > 0 THEN 0 ELSE -1)
        ELSE (2 * y.m) \div p

\* every positive finite float of the format
FinFloats ==
    { Fin(m, e) : m \in { n \in 1 .. (Pow10(Digits) - 1) : n % 10 # 0 },
                  e \in (0 - ExpLow) .. (Digits + MaxExp - 1) }

\* the floats v with lo <= v <= hi, lo and hi finite or Ovf
FloatsBetween(lo, hi) ==
    IF lo.k = "ovf" /\ hi.k = "ovf" THEN {lo}
    ELSE LET a == IF lo.k = "ovf" THEN hi ELSE IF hi.k = "ovf" THEN lo
                  ELSE IF Less(hi, lo) THEN hi ELSE lo
             b == IF lo.k = "ovf" THEN lo ELSE IF hi.k = "ovf" THEN hi
                  ELSE IF Less(hi, lo) THEN lo ELSE hi
         IN  IF a = b THEN {a}
             ELSE {a, b} \cup
                  { v \in FinFloats \cup {Zero} :
                      /\ NumDigits(v.m) + v.e <= Digits + MaxExp
                      /\ ~Less(v, a)
                      /\ (b.k = "ovf" \/ ~Less(b, v)) }

\* C's pow(x, y) for a finite x > 0, x # 1, and a finite y # 0.  For an
\* integer or half-integer y the value is computed; for any other y the libm
\* result is some float of the bracket [x^(floor(2y)/2), x^(ceil(2y)/2)].
LibmPow(x, y) ==
    IF IsIntegral(y) THEN {PowInt(x, IntOf(y))}
    ELSE IF y.e = -1 /\ y.m % 5 = 0 THEN {PowHalf(x, (2 * y.m) \div 10)}
    ELSE FloatsBetween(PowHalf(x, Floor2(y)), PowHalf(x, Floor2(y) + 1))

\* ------------------------------------------- outcomes of a Python call
\* A call returns a value or raises an exception of a class with a message;
\* a message is the sequence of its words.
Value(v) == [kind |-> "value", value |-> v, type |-> "", msg |-> <<>>]

Raise(type, msg) == [kind |-> "raise", value |-> Zero, type |-> type, msg |-> msg]

MsgFloatDivision == <<"float", "division", "by", "zero">>

MsgFloatModulo == <<"float", "modulo">>

MsgZeroToNegative == <<"0.0", "cannot", "be", "raised", "to", "a", "negative", "power">>

MsgRange == <<"(34,", "'Numerical", "result", "out", "of", "range')">>

MsgIntTooLarge == <<"int", "too", "large", "to", "convert", "to", "float">>

MsgComplexDivision == <<"complex", "division", "by", "zero">>

MsgComplexPower == <<"0.0", "to", "a", "negative", "or", "complex", "power">>

MsgComplexExponentiation == <<"complex", "exponentiation">>

MsgComplexModulo ==
    <<"unsupported", "operand", "type(s)", "for", "%:", "'", "complex", "'", "and",
      "'", "float", "'">>

MsgNoIsInteger ==
    <<"'", "complex", "'", "object", "has", "no", "attribute", "'", "is_integer", "'">>

MsgRecursion == <<"maximum", "recursion", "depth", "exceeded">>

MsgInvalidSyntax == <<"invalid", "syntax", "(<unknown>,", "line", "1)">>

\* ----------------------------------------- the operators of a Python float
\* float.__add__: the C sum of two doubles
float_add(a, b) ==
    IF a.k = "nan" \/ b.k = "nan" THEN NaN
    ELSE IF a.k = "inf" THEN (IF b.k = "inf" /\ b.m # a.m THEN NaN ELSE a)
    ELSE IF b.k = "inf" THEN b
    ELSE Saturate(FinAdd(a, b))

\* float.__sub__
float_sub(a, b) == float_add(a, Neg(b))

\* float.__mul__
float_mul(a, b) ==
    IF a.k = "nan" \/ b.k = "nan" THEN NaN
    ELSE IF a.k = "inf" \/ b.k = "inf"
         THEN (IF IsZero(a) \/ IsZero(b) THEN NaN ELSE Inf(Sign(a) * Sign(b)))
    ELSE Saturate(FinMul(a, b))

\* a division after IEEE 754, which has no error: x / 0 is an infinity or nan
float_div_ieee(a, b) ==
    IF IsZero(b)
    THEN Value(IF IsZero(a) \/ a.k = "nan" THEN NaN ELSE Inf(Sign(a)))
    ELSE IF a.k = "nan" \/ b.k = "nan" THEN Value(NaN)
    ELSE IF a.k = "inf" THEN Value(IF b.k = "inf" THEN NaN ELSE Inf(Sign(a) * Sign(b)))
    ELSE IF b.k = "inf" THEN Value(Zero)
    ELSE Value(Saturate(FinDiv(a, b)))

\* float.__truediv__: a zero divisor raises before the division is made
float_div(a, b) ==
    IF IsZero(b) THEN Raise("ZeroDivisionError", MsgFloatDivision)
    ELSE IF a.k = "nan" \/ b.k = "nan" THEN Value(NaN)
    ELSE IF a.k = "inf" THEN Value(IF b.k = "inf" THEN NaN ELSE Inf(Sign(a) * Sign(b)))
    ELSE IF b.k = "inf" THEN Value(Zero)
    ELSE Value(Saturate(FinDiv(a, b)))

\* C's fmod alone: the remainder keeps the sign of the dividend
float_rem_fmod(a, b) ==
    IF IsZero(b) THEN Raise("ZeroDivisionError", MsgFloatModulo)
    ELSE IF a.k # "fin" \/ b.k = "nan" THEN Value(NaN)
    ELSE IF b.k = "inf" THEN Value(a)
    ELSE Value(FinFmod(a, b))

\* float.__mod__ (float_rem): fmod, then the divisor is added when the signs
\* of the remainder and of the divisor differ
float_rem(a, b) ==
    IF IsZero(b) THEN Raise("ZeroDivisionError", MsgFloatModulo)
    ELSE IF a.k # "fin" \/ b.k = "nan" THEN Value(NaN)
    ELSE IF b.k = "inf"
         THEN Value(IF a.m # 0 /\ (b.m < 0) # (a.m < 0) THEN b ELSE a)
    ELSE LET mod == FinFmod(a, b)
         IN  IF mod.m # 0 /\ (b.m < 0) # (mod.m < 0)
             THEN Value(Saturate(FinAdd(mod, b)))
             ELSE Value(mod)

\* fmod(fabs(x), 2.0) == 1.0
IsOddInteger(x) == x.k = "fin" /\ x.e = 0 /\ x.m % 2 # 0

\* the outcome of C's pow on a bracket value, with errno ERANGE on overflow
PowResult(p, negate_result) ==
    IF p.k = "ovf" THEN Raise("OverflowError", MsgRange)
    ELSE Value(IF negate_result THEN Neg(p) ELSE p)

\* complex.__pow__ of a negative float and a non-integral exponent: a complex
\* number, or OverflowError when its modulus is out of range
complex_pow(iv, iw) ==
    { IF p.k = "ovf" THEN Raise("OverflowError", MsgComplexExponentiation)
      ELSE Value(Complex) : p \in LibmPow(Neg(iv), iw) }

\* float.__pow__ (float_pow): the set of its possible outcomes
float_pow(iv, iw) ==
    IF IsZero(iw) THEN {Value(Fin(1, 0))}
    ELSE IF iv.k = "nan" THEN {Value(NaN)}
    ELSE IF iw.k = "nan" THEN {Value(IF iv = Fin(1, 0) THEN iv ELSE NaN)}
    ELSE IF iw.k = "inf"
         THEN LET av == IF Sign(iv) < 0 THEN Neg(iv) ELSE iv
              IN  IF av = Fin(1, 0) THEN {Value(Fin(1, 0))}
                  ELSE IF (iw.m > 0) = (av.k = "inf" \/ Less(Fin(1, 0), av))
                       THEN {Value(Inf(1))}
                  ELSE {Value(Zero)}
    ELSE IF iv.k = "inf"
         THEN IF iw.m > 0
              THEN {Value(IF IsOddInteger(iw) THEN iv ELSE Inf(1))}
              ELSE {Value(Zero)}
    ELSE IF IsZero(iv)
         THEN IF iw.m < 0
              THEN {Raise("ZeroDivisionError", MsgZeroToNegative)}
              ELSE {Value(Zero)}
    ELSE IF iv.m < 0 /\ ~IsIntegral(iw) THEN complex_pow(iv, iw)
    ELSE LET negate_result == iv.m < 0 /\ IsOddInteger(iw)
             av == IF iv.m < 0 THEN Neg(iv) ELSE iv
         IN  IF av = Fin(1, 0)
             THEN {Value(IF negate_result THEN Fin(-1, 0) ELSE Fin(1, 0))}
             ELSE { PowResult(p, negate_result) : p \in LibmPow(av, iw) }

\* ------------------------------------------------ the operator module
\* The operands are floats or complex numbers.  The model keeps no components
\* of a complex number, so an operation whose outcome depends on them yields
\* every outcome it can have.
operator_add(a, b) ==
    IF a.k = "complex" \/ b.k = "complex" THEN {Value(Complex)}
    ELSE {Value(float_add(a, b))}

operator_sub(a, b) ==
    IF a.k = "complex" \/ b.k = "complex" THEN {Value(Complex)}
    ELSE {Value(float_sub(a, b))}

operator_mul(a, b) ==
    IF a.k = "complex" \/ b.k = "complex" THEN {Value(Complex)}
    ELSE {Value(float_mul(a, b))}

operator_truediv(a, b) ==
    IF b.k = "complex"
    THEN {Value(Complex), Raise("ZeroDivisionError", MsgComplexDivision)}
    ELSE IF a.k = "complex"
         THEN {IF IsZero(b) THEN Raise("ZeroDivisionError", MsgComplexDivision)
               ELSE Value(Complex)}
    ELSE {float_div(a, b)}

operator_pow(a, b) ==
    IF a.k = "complex" \/ b.k = "complex"
    THEN {Value(Complex), Raise("OverflowError", MsgComplexExponentiation),
          Raise("ZeroDivisionError", MsgComplexPower)}
    ELSE float_pow(a, b)

operator_mod(a, b) ==
    IF a.k = "complex" \/ b.k = "complex" THEN {Raise("TypeError", MsgComplexModulo)}
    ELSE {float_rem(a, b)}

operator_neg(a) == {Value(Neg(a))}

operator_pos(a) == {Value(a)}

\* the keys of the dispatch tables: the ast operator classes
_ALLOWED_BIN_OPS_KEYS == {"Add", "Sub", "Mult", "Div", "Pow", "Mod"}

_ALLOWED_UNARY_OPS_KEYS == {"UAdd", "USub"}

\* a table whose entry for ast.Sub is operator.add
_ALLOWED_BIN_OPS_add(op, a, b) ==
    CASE op = "Add" -> operator_add(a, b)
      [] op = "Sub" -> operator_add(a, b)
      [] op = "Mult" -> operator_mul(a, b)
      [] op = "Div" -> operator_truediv(a, b)
      [] op = "Pow" -> operator_pow(a, b)
      [] op = "Mod" -> operator_mod(a, b)

\* _ALLOWED_BIN_OPS[op](a, b)
_ALLOWED_BIN_OPS(op, a, b) ==
    CASE op = "Add" -> operator_add(a, b)
      [] op = "Sub" -> operator_sub(a, b)
      [] op = "Mult" -> operator_mul(a, b)
      [] op = "Div" -> operator_truediv(a, b)
      [] op = "Pow" -> operator_pow(a, b)
      [] op = "Mod" -> operator_mod(a, b)

\* _ALLOWED_UNARY_OPS[op](a)
_ALLOWED_UNARY_OPS(op, a) ==
    CASE op = "UAdd" -> operator_pos(a)
      [] op = "USub" -> operator_neg(a)

\* -------------------------------------------------- the expression text
\* The text is the sequence of its tokens [t, s, m, e]: t = "int" and
\* t = "float" are numeric literals that read m * 10^e; t = "op" is the
\* operator s; "name", "keyword", "str", "imag", "(" and ")" are the others.
IntTok(m, e) == [t |-> "int", s |-> "", m |-> m, e |-> e]

FloatTok(m, e) == [t |-> "float", s |-> "", m |-> m, e |-> e]

OpTok(s) == [t |-> "op", s |-> s, m |-> 0, e |-> 0]

NameTok(s) == [t |-> "name", s |-> s, m |-> 0, e |-> 0]

KeywordTok(s) == [t |-> "keyword", s |-> s, m |-> 0, e |-> 0]

StrTok == [t |-> "str", s |-> "a", m |-> 0, e |-> 0]

ImagTok == [t |-> "imag", s |-> "1j", m |-> 0, e |-> 0]

LP == [t |-> "(", s |-> "(", m |-> 0, e |-> 0]

RP == [t |-> ")", s |-> ")", m |-> 0, e |-> 0]

EndTok == [t |-> "end", s |-> "", m |-> 0, e |-> 0]

\* ------------------------------------------------------- the ast nodes
\* the value of an ast.Constant: its class and, for a number, the number (an
\* int is exact, whatever its size; a float is a float of the format)
ConstValue(cls, num) == [cls |-> cls, num |-> num]

Expression(body) == [type |-> "Expression", body |-> body]

Constant(value) == [type |-> "Constant", value |-> value]

BinOp(left, op, right) == [type |-> "BinOp", left |-> left, op |-> op, right |-> right]

UnaryOp(op, operand) == [type |-> "UnaryOp", op |-> op, operand |-> operand]

Name(id) == [type |-> "Name", id |-> id]

Compare(left, right) == [type |-> "Compare", left |-> left, right |-> right]

Call(func, args) == [type |-> "Call", func |-> func, args |-> args]

NoNode == [type |-> "None"]

\* the ast operator class of a binary operator token
BinOpClass(s) ==
    CASE s = "+" -> "Add"
      [] s = "-" -> "Sub"
      [] s = "*" -> "Mult"
      [] s = "/" -> "Div"
      [] s = "//" -> "FloorDiv"
      [] s = "%" -> "Mod"
      [] s = "**" -> "Pow"

\* the ast operator class of a unary operator token
UnaryOpClass(s) ==
    CASE s = "+" -> "UAdd"
      [] s = "-" -> "USub"
      [] s = "~" -> "Invert"

\* ------------------------------------------ ast.parse(expr, mode="eval")
\* Python's expression grammar, for the tokens above:
\*   comparison: sum ('<' sum)?
\*   sum:        term (('+' | '-') term)*
\*   term:       factor (('*' | '/' | '//' | '%') factor)*
\*   factor:     ('+' | '-' | '~') factor | power
\*   power:      primary ('**' factor)?
\*   primary:    atom ('(' comparison? ')')*
\*   atom:       NUMBER | NAME | STRING | True | False | None | '(' comparison ')'
\* A parse yields [ok, node, pos]: the node and the position after it.
Parsed(node, pos) == [ok |-> TRUE, node |-> node, pos |-> pos]

NoParse == [ok |-> FALSE, node |-> NoNode, pos |-> 0]

TokAt(toks, i) == IF i <= Len(toks) THEN toks[i] ELSE EndTok

IsOp(tk, ops) == tk.t = "op" /\ tk.s \in ops

RECURSIVE ParseComparison(_, _)
RECURSIVE ParseSum(_, _)
RECURSIVE ParseSumRest(_, _, _)
RECURSIVE ParseTerm(_, _)
RECURSIVE ParseTermRest(_, _, _)
RECURSIVE ParseFactor(_, _)
RECURSIVE ParsePower(_, _)
RECURSIVE ParsePrimary(_, _)
RECURSIVE ParseTrailers(_, _, _)
RECURSIVE ParseAtom(_, _)

\* r is the parse of what follows an opening parenthesis: the group ends at
\* the closing one
CloseGroup(toks, r) ==
    IF r.ok /\ TokAt(toks, r.pos).t = ")" THEN Parsed(r.node, r.pos + 1) ELSE NoParse

\* the literal of a float token is converted when it is parsed: out of range
\* it is inf
ParseAtom(toks, i) ==
    LET tk == TokAt(toks, i)
    IN  CASE tk.t = "int" ->
               Parsed(Constant(ConstValue("int", Fin(tk.m, tk.e))), i + 1)
          [] tk.t = "float" ->
               Parsed(Constant(ConstValue("float", Saturate(Round(tk.m, tk.e)))), i + 1)
          [] tk.t = "str" -> Parsed(Constant(ConstValue("str", Zero)), i + 1)
          [] tk.t = "imag" -> Parsed(Constant(ConstValue("complex", Zero)), i + 1)
          [] tk.t = "keyword" ->
               Parsed(Constant(CASE tk.s = "True" -> ConstValue("bool", Fin(1, 0))
                                 [] tk.s = "False" -> ConstValue("bool", Zero)
                                 [] OTHER -> ConstValue("NoneType", Zero)), i + 1)
          [] tk.t = "name" -> Parsed(Name(tk.s), i + 1)
          [] tk.t = "(" -> CloseGroup(toks, ParseComparison(toks, i + 1))
          [] OTHER -> NoParse

\* r is the parse of the argument of a call of node
CloseCall(toks, node, r) ==
    IF r.ok /\ TokAt(toks, r.pos).t = ")"
    THEN ParseTrailers(toks, Call(node, <<r.node>>), r.pos + 1)
    ELSE NoParse

ParseTrailers(toks, node, i) ==
    IF TokAt(toks, i).t # "(" THEN Parsed(node, i)
    ELSE IF TokAt(toks, i + 1).t = ")"
         THEN ParseTrailers(toks, Call(node, <<>>), i + 2)
    ELSE CloseCall(toks, node, ParseComparison(toks, i + 1))

\* a is the parse of an atom: its trailers follow
TrailersOf(toks, a) == IF a.ok THEN ParseTrailers(toks, a.node, a.pos) ELSE NoParse

ParsePrimary(toks, i) == TrailersOf(toks, ParseAtom(toks, i))

\* p is the parse of a base and r of its exponent
PowerOf(p, r) == IF r.ok THEN Parsed(BinOp(p.node, "Pow", r.node), r.pos) ELSE NoParse

\* p is the parse of a primary: '**' binds tighter than a unary operator on
\* its left and takes a factor on its right, so that it groups to the right
ExponentOf(toks, p) ==
    IF p.ok /\ IsOp(TokAt(toks, p.pos), {"**"})
    THEN PowerOf(p, ParseFactor(toks, p.pos + 1))
    ELSE p

ParsePower(toks, i) == ExponentOf(toks, ParsePrimary(toks, i))

\* r is the parse of the operand of the unary operator tk
UnaryOf(tk, r) ==
    IF r.ok THEN Parsed(UnaryOp(UnaryOpClass(tk.s), r.node), r.pos) ELSE NoParse

ParseFactor(toks, i) ==
    IF IsOp(TokAt(toks, i), {"+", "-", "~"})
    THEN UnaryOf(TokAt(toks, i), ParseFactor(toks, i + 1))
    ELSE ParsePower(toks, i)

\* r is the parse of the right operand of tk, node the operand so far: the
\* operators of a level group to the left
TermOf(toks, node, tk, r) ==
    IF r.ok THEN ParseTermRest(toks, BinOp(node, BinOpClass(tk.s), r.node), r.pos)
    ELSE NoParse

ParseTermRest(toks, node, i) ==
    IF IsOp(TokAt(toks, i), {"*", "/", "//", "%"})
    THEN TermOf(toks, node, TokAt(toks, i), ParseFactor(toks, i + 1))
    ELSE Parsed(node, i)

\* f is the parse of the first operand of a level
TermRestOf(toks, f) == IF f.ok THEN ParseTermRest(toks, f.node, f.pos) ELSE NoParse

ParseTerm(toks, i) == TermRestOf(toks, ParseFactor(toks, i))

SumOf(toks, node, tk, r) ==
    IF r.ok THEN ParseSumRest(toks, BinOp(node, BinOpClass(tk.s), r.node), r.pos)
    ELSE NoParse

ParseSumRest(toks, node, i) ==
    IF IsOp(TokAt(toks, i), {"+", "-"})
    THEN SumOf(toks, node, TokAt(toks, i), ParseTerm(toks, i + 1))
    ELSE Parsed(node, i)

SumRestOf(toks, f) == IF f.ok THEN ParseSumRest(toks, f.node, f.pos) ELSE NoParse

ParseSum(toks, i) == SumRestOf(toks, ParseTerm(toks, i))

\* a and b are the parses of the sides of a comparison
CompareOf(a, b) == IF b.ok THEN Parsed(Compare(a.node, b.node), b.pos) ELSE NoParse

\* a is the parse of the left side
ComparisonOf(toks, a) ==
    IF a.ok /\ IsOp(TokAt(toks, a.pos), {"<"})
    THEN CompareOf(a, ParseSum(toks, a.pos + 1))
    ELSE a

ParseComparison(toks, i) == ComparisonOf(toks, ParseSum(toks, i))

\* r is the parse of the text from its first token: the whole text is an
\* expression or there is a syntax error
WholeText(expr, r) ==
    IF r.ok /\ r.pos = Len(expr) + 1
    THEN [kind |-> "value", node |-> Expression(r.node), type |-> "", msg |-> <<>>]
    ELSE [kind |-> "raise", node |-> NoNode, type |-> "SyntaxError",
          msg |-> MsgInvalidSyntax]

\* ast.parse(expr, mode="eval"): the Expression node of the whole text, or
\* SyntaxError
ast_parse(expr) == WholeText(expr, ParseComparison(expr, 1))

\* --------------------------------------------- Python's builtin classes
\* the base class of each exception class the calculator can meet
ExceptionBase ==
    [c \in {"SyntaxError", "ValueError", "ArithmeticError", "ZeroDivisionError",
            "OverflowError", "RuntimeError", "RecursionError", "TypeError",
            "AttributeError", "Exception", "BaseException"} |->
        CASE c \in {"ZeroDivisionError", "OverflowError"} -> "ArithmeticError"
          [] c = "RecursionError" -> "RuntimeError"
          [] c = "Exception" -> "BaseException"
          [] c = "BaseException" -> "object"
          [] OTHER -> "Exception"]

RECURSIVE IsSubclass(_, _)
\* issubclass(c, base) for the exception classes
IsSubclass(c, base) ==
    IF c = base THEN TRUE
    ELSE IF c \notin DOMAIN ExceptionBase THEN FALSE
    ELSE IsSubclass(ExceptionBase[c], base)

\* isinstance(value, classes) for the value of a Constant: bool is a
\* subclass of int
IsInstance(value, classes) ==
    \/ value.cls \in classes
    \/ value.cls = "bool" /\ "int" \in classes

\* float(value) for an int, a bool or a float: an int beyond the largest
\* float raises OverflowError
float(value) ==
    IF value.cls = "float" THEN Value(value.num)
    ELSE LET v == Round(value.num.m, value.num.e)
         IN  IF v.k = "ovf" THEN Raise("OverflowError", MsgIntTooLarge) ELSE Value(v)

\* ------------------------------------------------------- str of a number
Digit(d) == <<"0", "1", "2", "3", "4", "5", "6", "7", "8", "9">>[d + 1]

RECURSIVE DigitsOf(_)
\* the decimal digits of n > 0
DigitsOf(n) == IF n = 0 THEN <<>> ELSE Append(DigitsOf(n \div 10), Digit(n % 10))

Zeros(n) == [i \in 1 .. n |-> "0"]

SignChars(m) == IF m < 0 THEN <<"-">> ELSE <<>>

\* str(int(result)) for a float without fractional part: its digits
str_int(v) ==
    IF v.m = 0 THEN <<"0">>
    ELSE SignChars(v.m) \o DigitsOf(Abs(v.m)) \o Zeros(v.e)

\* str(result) of a float, that is repr: the shortest digits that read back
\* as the float, in exponent notation when the decimal point would stand more
\* than 16 places right or more than 3 places left of the first digit
str_float(v) ==
    IF v.k = "nan" THEN <<"n", "a", "n">>
    ELSE IF v.k = "inf" THEN SignChars(v.m) \o <<"i", "n", "f">>
    ELSE IF v.m = 0 THEN <<"0", ".", "0">>
    ELSE LET ds == DigitsOf(Abs(v.m))
             nd == Len(ds)
             decpt == nd + v.e
             x == Abs(decpt - 1)
         IN  SignChars(v.m) \o
             ( IF decpt > 16 \/ decpt < -3
               THEN <<ds[1]>> \o (IF nd > 1 THEN <<".">> \o SubSeq(ds, 2, nd) ELSE <<>>)
                    \o <<"e", IF decpt - 1 < 0 THEN "-" ELSE "+">>
                    \o (IF x < 10 THEN <<"0">> ELSE <<>>) \o DigitsOf(x)
               ELSE IF decpt <= 0 THEN <<"0", ".">> \o Zeros(0 - decpt) \o ds
               ELSE IF decpt >= nd THEN ds \o Zeros(decpt - nd) \o <<".", "0">>
               ELSE SubSeq(ds, 1, decpt) \o <<".">> \o SubSeq(ds, decpt + 1, nd) )

\* ------------------------------------------------------------ the state
VARIABLES
    expression,   \* the argument of calculator: the tokens of the text
    pc,           \* "parse", "eval", "format", "except" or "done"
    parsed,       \* _safe_eval_math's parsed
    stack,        \* the frames of _eval, the innermost last
    ret,          \* what the frame that just returned has returned
    result,       \* calculator's result, once _safe_eval_math has returned
    exc,          \* the exception that is propagating
    output,       \* what calculator has returned, or the exception it let go
    applied,      \* history: the calls of dispatch-table functions, in order
    tables,       \* the module's globals _ALLOWED_BIN_OPS and _ALLOWED_UNARY_OPS
    threads,      \* the calls of calculator that run beside the one above
    tool,         \* a call of transcribe_audio
    session,      \* a run of main
    agent         \* a call of invoke_agent

\* the variables of the call of calculator that is running
call == <<expression, pc, parsed, stack, ret, result, exc, output, applied>>

\* the variables of everything else
rest == <<tables, threads, tool, session, agent>>

vars == <<expression, pc, parsed, stack, ret, result, exc, output, applied,
          tables, threads, tool, session, agent>>

Nothing == [kind |-> "none", value |-> Zero, type |-> "", msg |-> <<>>]

NoOutput == [kind |-> "none", text |-> <<>>, type |-> ""]

\* a frame of _eval(node): phase "enter" before its body runs, then "body",
\* "left", "right" or "operand" while it waits for the call it has made
Frame(node) == [node |-> node, phase |-> "enter", left |-> Zero]

Top == stack[Len(stack)]

Pop(st) == SubSeq(st, 1, Len(st) - 1)

SetTop(st, f) == [st EXCEPT ![Len(st)] = f]

\* the locals of a call calculator(expr) when it begins
Begin(expr) ==
    /\ expression = expr
    /\ pc = "parse"
    /\ parsed = NoNode
    /\ stack = <<>>
    /\ ret = Nothing
    /\ result = Zero
    /\ exc = Nothing
    /\ output = NoOutput
    /\ applied = <<>>

\* the dispatch tables as the module defines them: their keys
Tables == [bin |-> _ALLOWED_BIN_OPS_KEYS, unary |-> _ALLOWED_UNARY_OPS_KEYS]

\* a part of the program that is not running
Idle == [pc |-> "idle"]

\* the state in which calculator(expr) is called, alone
InitWith(expr) ==
    /\ Begin(expr)
    /\ tables = Tables
    /\ threads = Idle
    /\ tool = Idle
    /\ session = Idle
    /\ agent = Idle

\* an exception leaves every frame of _eval and reaches calculator's handler
Propagate(e) ==
    /\ exc' = e
    /\ pc' = "except"
    /\ stack' = <<>>
    /\ ret' = Nothing

\* a call of _eval(node) from the innermost frame f, or RecursionError when
\* the interpreter allows no further frame
CallEval(f, node) ==
    IF Len(stack) >= RecursionLimit
    THEN /\ Propagate(Raise("RecursionError", MsgRecursion))
         /\ UNCHANGED <<result, applied>>
    ELSE /\ stack' = Append(SetTop(stack, f), Frame(node))
         /\ ret' = Nothing
         /\ UNCHANGED <<pc, result, exc, applied>>

\* the innermost frame returns v to its caller
Return(v) ==
    /\ stack' = Pop(stack)
    /\ ret' = Value(v)
    /\ UNCHANGED <<pc, result, exc, applied>>

\* parsed = ast.parse(expr, mode="eval"), then the call _eval(parsed)
Parse ==
    /\ pc = "parse"
    /\ LET r == ast_parse(expression)
       IN  IF r.kind = "raise"
           THEN /\ Propagate(Raise(r.type, r.msg))
                /\ UNCHANGED parsed
           ELSE /\ parsed' = r.node
                /\ stack' = <<Frame(r.node)>>
                /\ pc' = "eval"
                /\ UNCHANGED <<ret, exc>>
    /\ UNCHANGED <<expression, result, output, applied>>
    /\ UNCHANGED rest

\* _eval with the first recursive call of a binary operation on node.right
Enter_right_operand ==
    /\ pc = "eval"
    /\ stack # <<>>
    /\ Top.phase = "enter"
    /\ LET node == Top.node
       IN  IF node.type = "Expression"
           THEN CallEval([Top EXCEPT !.phase = "body"], node.body)
           ELSE IF node.type = "Constant" /\ IsInstance(node.value, {"int", "float"})
           THEN LET v == float(node.value)
                IN  IF v.kind = "raise"
                    THEN Propagate(v) /\ UNCHANGED <<result, applied>>
                    ELSE Return(v.value)
           ELSE IF node.type = "BinOp" /\ node.op \in tables.bin
           THEN CallEval([Top EXCEPT !.phase = "left"], node.right)
           ELSE IF node.type = "UnaryOp" /\ node.op \in tables.unary
           THEN CallEval([Top EXCEPT !.phase = "operand"], node.operand)
           ELSE /\ Propagate(Raise("ValueError",
                        <<"Only", "numeric", "math", "expressions", "are", "supported.">>))
                /\ UNCHANGED <<result, applied>>
    /\ UNCHANGED <<expression, parsed, output>>
    /\ UNCHANGED rest

\* the body of _eval(node) up to its first call or its return: the chain of
\* isinstance tests
Enter ==
    /\ pc = "eval"
    /\ stack # <<>>
    /\ Top.phase = "enter"
    /\ LET node == Top.node
       IN  IF node.type = "Expression"
           THEN CallEval([Top EXCEPT !.phase = "body"], node.body)
           ELSE IF node.type = "Constant" /\ IsInstance(node.value, {"int", "float"})
           THEN LET v == float(node.value)
                IN  IF v.kind = "raise"
                    THEN Propagate(v) /\ UNCHANGED <<result, applied>>
                    ELSE Return(v.value)
           ELSE IF node.type = "BinOp" /\ node.op \in tables.bin
           THEN CallEval([Top EXCEPT !.phase = "left"], node.left)
           ELSE IF node.type = "UnaryOp" /\ node.op \in tables.unary
           THEN CallEval([Top EXCEPT !.phase = "operand"], node.operand)
           ELSE /\ Propagate(Raise("ValueError",
                        <<"Only", "numeric", "math", "expressions", "are", "supported.">>))
                /\ UNCHANGED <<result, applied>>
    /\ UNCHANGED <<expression, parsed, output>>
    /\ UNCHANGED rest

\* the dispatch-table function of the innermost frame is called on args and
\* has the outcome out
Apply(op, args, out) ==
    /\ applied' = Append(applied, [op |-> op, args |-> args, out |-> out])
    /\ IF out.kind = "raise"
       THEN Propagate(out) /\ UNCHANGED result
       ELSE /\ stack' = Pop(stack)
            /\ ret' = out
            /\ UNCHANGED <<pc, result, exc>>

\* a frame of _eval goes on with the value its call has returned
Resume ==
    /\ pc = "eval"
    /\ ret.kind = "value"
    /\ IF stack = <<>>
       THEN \* _eval(parsed) has returned: result = _safe_eval_math(expression)
            /\ result' = ret.value
            /\ pc' = "format"
            /\ UNCHANGED <<stack, ret, exc, applied>>
       ELSE CASE Top.phase = "body" -> Return(ret.value)
              [] Top.phase = "left" ->
                   CallEval([Top EXCEPT !.phase = "right", !.left = ret.value],
                            Top.node.right)
              [] Top.phase = "right" ->
                   \E out \in _ALLOWED_BIN_OPS(Top.node.op, Top.left, ret.value) :
                       Apply(Top.node.op, <<Top.left, ret.value>>, out)
              [] Top.phase = "operand" ->
                   \E out \in _ALLOWED_UNARY_OPS(Top.node.op, ret.value) :
                       Apply(Top.node.op, <<ret.value>>, out)
    /\ UNCHANGED <<expression, parsed, output>>
    /\ UNCHANGED rest

\* result.is_integer(): a complex number has no such method
is_integer(v) ==
    IF v.k = "complex" THEN Raise("AttributeError", MsgNoIsInteger)
    ELSE [Value(Zero) EXCEPT !.kind = IF IsIntegral(v) THEN "true" ELSE "false"]

\* str(result) for every result
Rendered_repr(v) == str_float(v)

\* the text calculator returns for result
Rendered(v) == IF is_integer(v).kind = "true" THEN str_int(v) ELSE str_float(v)

\* the try block of calculator after the call of _safe_eval_math
Format ==
    /\ pc = "format"
    /\ IF is_integer(result).kind = "raise"
       THEN /\ exc' = is_integer(result)
            /\ pc' = "except"
            /\ UNCHANGED output
       ELSE /\ output' = [kind |-> "return", text |-> Rendered(result), type |-> ""]
            /\ pc' = "done"
            /\ UNCHANGED exc
    /\ UNCHANGED <<expression, parsed, stack, ret, result, applied>>
    /\ UNCHANGED rest

\* a handler that catches ValueError only
Caught_ValueError(type) == IsSubclass(type, "ValueError")

\* the classes the handler of calculator catches: except Exception
Caught(type) == IsSubclass(type, "Exception")

\* except Exception as exc: return f"Error: {exc}"
Except ==
    /\ pc = "except"
    /\ IF Caught(exc.type)
       THEN output' = [kind |-> "return", text |-> <<"Error:">> \o exc.msg, type |-> ""]
       ELSE output' = [kind |-> "raise", text |-> exc.msg, type |-> exc.type]
    /\ pc' = "done"
    /\ UNCHANGED <<expression, parsed, stack, ret, result, exc, applied>>
    /\ UNCHANGED rest

Next == Parse \/ Enter \/ Resume \/ Format \/ Except

\* ------------------------------------------------------------ calls side by side
\* calculator keeps everything it works with in the locals of the call: two
\* calls that run in two threads share the module's globals and nothing else.
\* The variables of a call hold the locals of the thread that is running; the
\* locals of the thread that waits are kept in threads.waiting.

\* the locals of the running call
Context ==
    [expression |-> expression, pc |-> pc, parsed |-> parsed, stack |-> stack,
     ret |-> ret, result |-> result, exc |-> exc, output |-> output,
     applied |-> applied]

\* the locals of a call calculator(expr) that has not taken a step
Fresh(expr) ==
    [expression |-> expr, pc |-> "parse", parsed |-> NoNode, stack |-> <<>>,
     ret |-> Nothing, result |-> Zero, exc |-> Nothing, output |-> NoOutput,
     applied |-> <<>>]

\* the thread whose locals are c gets the processor
Restore(c) ==
    /\ expression' = c.expression
    /\ pc' = c.pc
    /\ parsed' = c.parsed
    /\ stack' = c.stack
    /\ ret' = c.ret
    /\ result' = c.result
    /\ exc' = c.exc
    /\ output' = c.output
    /\ applied' = c.applied

\* a call is in the middle of its evaluation
Midway(c) == c.pc \notin {"parse", "done"}

\* after a call that ran alone has returned, the same expression is
\* evaluated again by thread 1 while thread 2 evaluates threads.second
Start ==
    /\ threads.pc = "alone"
    /\ pc = "done"
    /\ Restore(Fresh(expression))
    /\ threads' = [threads EXCEPT !.pc = "together", !.alone = output,
                                  !.waiting = Fresh(threads.second)]
    /\ UNCHANGED <<tables, tool, session, agent>>

\* a switch between calls that keep result in a global of the module
Switch_shared_result ==
    /\ threads.pc = "together"
    /\ Restore([threads.waiting EXCEPT !.result = result])
    /\ threads' = [threads EXCEPT !.waiting = Context, !.self = 3 - @,
                                  !.mixed = @ \/ (Midway(Context) /\ Midway(threads.waiting))]
    /\ UNCHANGED <<tables, tool, session, agent>>

\* the interpreter switches threads: the running call waits, the waiting one runs
Switch ==
    /\ threads.pc = "together"
    /\ Restore(threads.waiting)
    /\ threads' = [threads EXCEPT !.waiting = Context, !.self = 3 - @,
                                  !.mixed = @ \/ (Midway(Context) /\ Midway(threads.waiting))]
    /\ UNCHANGED <<tables, tool, session, agent>>

NextThreads == Parse \/ Enter \/ Resume \/ Format \/ Except \/ Start \/ Switch

\* ------------------------------------------------------------ transcribe_audio
\* no call of calculator is running
NotCalled ==
    /\ expression = <<>>
    /\ pc = "idle"
    /\ parsed = NoNode
    /\ stack = <<>>
    /\ ret = Nothing
    /\ result = Zero
    /\ exc = Nothing
    /\ output = NoOutput
    /\ applied = <<>>

\* str.lower on the values of PROVIDER and on the suffixes of the files
Lower(s) ==
    IF s = "Ollama" THEN "ollama"
    ELSE IF s = "Bedrock" THEN "bedrock"
    ELSE IF s = ".WAV" THEN ".wav"
    ELSE s

\* _build_llm: the class of the model it returns, or the exception it raises;
\* installed tells whether the import of the provider's package succeeds
_build_llm(provider, installed) ==
    IF provider = "ollama"
    THEN IF installed
         THEN [kind |-> "value", llm |-> "ChatOllama", type |-> "", text |-> <<>>]
         ELSE [kind |-> "raise", llm |-> "", type |-> "ModuleNotFoundError",
               text |-> <<"No", "module", "named", "'langchain_ollama'">>]
    ELSE IF provider = "bedrock"
    THEN IF installed
         THEN [kind |-> "value", llm |-> "ChatBedrock", type |-> "", text |-> <<>>]
         ELSE [kind |-> "raise", llm |-> "", type |-> "ModuleNotFoundError",
               text |-> <<"No", "module", "named", "'langchain_aws'">>]
    ELSE [kind |-> "raise", llm |-> "", type |-> "ValueError",
          text |-> <<"Unsupported", "provider:", provider>>]

\* transcribe_audio returns text
ToolReturn(text) ==
    tool' = [tool EXCEPT !.pc = "done",
                         !.out = [kind |-> "return", type |-> "", text |-> text]]

\* an exception raised in transcribe_audio: no handler is on its way, it
\* leaves the function
ToolRaise(type, text) ==
    tool' = [tool EXCEPT !.pc = "done",
                         !.out = [kind |-> "raise", type |-> type, text |-> text]]

\* the validation of the input file
ValidateInput ==
    /\ tool.pc = "validate"
    /\ IF ~tool.exists
       THEN ToolReturn(<<"Error:", "file", "not", "found:", tool.stem \o tool.suffix>>)
       ELSE IF Lower(tool.suffix) # ".wav"
       THEN ToolReturn(<<"Error:", "expected", "a", ".wav", "file,", "got",
                         "'" \o tool.suffix \o "'">>)
       ELSE tool' = [tool EXCEPT !.pc = "whisper"]
    /\ UNCHANGED <<call, tables, threads, session, agent>>

\* step 1: _whisper_transcribe imports whisper, loads the model and
\* transcribes the file; each of the three can raise
WhisperTranscribe ==
    /\ tool.pc = "whisper"
    /\ \E outcome \in {"text", "ModuleNotFoundError", "RuntimeError"} :
          IF outcome = "text"
          THEN tool' = [tool EXCEPT !.pc = "llm", !.raw = "text"]
          ELSE ToolRaise(outcome, <<"whisper">>)
    /\ UNCHANGED <<call, tables, threads, session, agent>>

\* step 2: the branch on the lower-cased PROVIDER, and the call of _build_llm,
\* which reads PROVIDER again, as it is
BuildLlm ==
    /\ tool.pc = "llm"
    /\ \E installed \in BOOLEAN :
          LET built == _build_llm(tool.PROVIDER, installed)
          IN  IF built.kind = "raise"
              THEN ToolRaise(built.type, built.text)
              ELSE tool' = [tool EXCEPT !.pc = "invoke", !.llm = built.llm,
                               !.override = (Lower(tool.PROVIDER) = "ollama")]
    /\ UNCHANGED <<call, tables, threads, session, agent>>

\* the model is invoked; the content of its answer is a str or a list of blocks
InvokeLlm ==
    /\ tool.pc = "invoke"
    /\ \E outcome \in {"str", "list", "ConnectionError"} :
          IF outcome = "ConnectionError"
          THEN ToolRaise(outcome, <<"invoke">>)
          ELSE tool' = [tool EXCEPT !.pc = "mkdir", !.body = outcome]
    /\ UNCHANGED <<call, tables, threads, session, agent>>

\* the document is built and the diary directory created
MakeDiary ==
    /\ tool.pc = "mkdir"
    /\ \E outcome \in {"made", "PermissionError", "FileExistsError"} :
          IF outcome = "made"
          THEN tool' = [tool EXCEPT !.pc = "write", !.diary = TRUE]
          ELSE ToolRaise(outcome, <<"diary">>)
    /\ UNCHANGED <<call, tables, threads, session, agent>>

\* the file is written and its path returned
WriteTranscript ==
    /\ tool.pc = "write"
    /\ \E outcome \in {"written", "OSError"} :
          IF outcome = "written"
          THEN tool' = [tool EXCEPT !.pc = "done", !.saved = TRUE,
                           !.out = [kind |-> "return", type |-> "",
                                    text |-> <<"Transcript", "saved", "to:", "diary/now.md">>]]
          ELSE ToolRaise(outcome, <<"diary/now.md">>)
    /\ UNCHANGED <<call, tables, threads, session, agent>>

NextTool ==
    ValidateInput \/ WhisperTranscribe \/ BuildLlm \/ InvokeLlm \/ MakeDiary
        \/ WriteTranscript

\* the values of the environment variable PROVIDER; unset reads as "bedrock"
Providers == {"bedrock", "ollama", "Ollama", "Bedrock", "openai"}

\* the suffixes of the files transcribe_audio is called with
Suffixes == {".wav", ".WAV", ".mp3", ""}

\* transcribe_audio is called
InitTool ==
    /\ NotCalled
    /\ tables = Tables
    /\ threads = Idle
    /\ session = Idle
    /\ agent = Idle
    /\ \E exists \in BOOLEAN, suffix \in Suffixes, provider \in Providers :
          tool = [pc |-> "validate", stem |-> "memo", suffix |-> suffix,
                  exists |-> exists, PROVIDER |-> provider, raw |-> "",
                  llm |-> "", override |-> FALSE, body |-> "", diary |-> FALSE,
                  saved |-> FALSE,
                  out |-> [kind |-> "none", type |-> "", text |-> <<>>]]

SpecTool == InitTool /\ [][NextTool]_vars

\* ------------------------------------------------------------ main
\* A text is the sequence of its characters.

\* the characters str.strip removes
Whitespace == {" ", "\t", "\n"}

RECURSIVE str_lstrip(_)
\* the text without its leading whitespace
str_lstrip(t) ==
    IF t # <<>> /\ Head(t) \in Whitespace THEN str_lstrip(Tail(t)) ELSE t

RECURSIVE str_rstrip(_)
\* the text without its trailing whitespace
str_rstrip(t) ==
    IF t # <<>> /\ t[Len(t)] \in Whitespace
    THEN str_rstrip(SubSeq(t, 1, Len(t) - 1))
    ELSE t

\* str.strip
str_strip(t) == str_rstrip(str_lstrip(t))

\* str.lower on a character
LowerChar(c) ==
    CASE c = "E" -> "e" [] c = "X" -> "x" [] c = "I" -> "i" [] c = "T" -> "t"
      [] c = "Q" -> "q" [] c = "U" -> "u" [] OTHER -> c

\* str.lower
str_lower(t) == [i \in DOMAIN t |-> LowerChar(t[i])]

\* main ends
Ends(kind) == [session EXCEPT !.pc = "done", !.out = kind]

\* main after the agent is built: the single-shot branch, or the banner of
\* the interactive mode; invoke_agent returns or raises
Dispatch ==
    /\ session.pc = "prompt"
    /\ IF session.prompt.given /\ session.prompt.text # <<>>
       THEN \E out \in {"return", "raise"} :
                session' = [Ends(out) EXCEPT !.invoked = Append(@, session.prompt.text)]
       ELSE session' = [session EXCEPT !.pc = "loop"]
    /\ UNCHANGED <<call, tables, threads, tool, agent>>

\* the agent is invoked on the line that was read
Answer(line, out) ==
    IF out = "raise"
    THEN [Ends(out) EXCEPT !.invoked = Append(@, line), !.reads = @ + 1]
    ELSE [session EXCEPT !.invoked = Append(@, line), !.reads = @ + 1]

\* one pass of the loop on the line user_input, stripped
Pass(user_input) ==
    IF str_lower(user_input) \in {<<"e", "x", "i", "t">>, <<"q", "u", "i", "t">>}
    THEN session' = [Ends("return") EXCEPT !.reads = @ + 1]
    ELSE IF user_input = <<>>
    THEN session' = [session EXCEPT !.reads = @ + 1]
    ELSE \E out \in {"return", "raise"} : session' = Answer(user_input, out)

\* one pass of while True: input() raises EOFError at the end of the input
Loop ==
    /\ session.pc = "loop"
    /\ IF session.reads = Len(session.lines)
       THEN session' = Ends("raise")
       ELSE Pass(str_strip(session.lines[session.reads + 1]))
    /\ UNCHANGED <<call, tables, threads, tool, agent>>

NextSession == Dispatch \/ Loop

\* ------------------------------------------------------------ invoke_agent
\* an item of a content list: a str, or a dict with a type and, if has, a text
StrItem(text) == [kind |-> "str", type |-> "", has |-> TRUE, text |-> text]

DictItem(type, has, text) == [kind |-> "dict", type |-> type, has |-> has, text |-> text]

\* the content of a message: a str, a list of items, or None
StrContent(text) == [kind |-> "str", text |-> text, items |-> <<>>]

ListContent(items) == [kind |-> "list", text |-> <<>>, items |-> items]

NoneContent == [kind |-> "None", text |-> <<>>, items |-> <<>>]

\* a message of a type, with a content
Message(type, content) == [type |-> type, content |-> content]

RECURSIVE Parts(_)
\* parts: the str items and the texts of the dict items of type "text", of
\* which those that are not empty are joined
Parts(items) ==
    IF items = <<>> THEN <<>>
    ELSE LET item == Head(items)
         IN  IF item.kind = "str" \/ item.type = "text"
             THEN (IF item.has /\ item.text # <<>> THEN <<item.text>> ELSE <<>>)
                      \o Parts(Tail(items))
             ELSE Parts(Tail(items))

RECURSIVE Join(_)
\* "\n".join(parts)
Join(parts) ==
    IF parts = <<>> THEN <<>>
    ELSE IF Len(parts) = 1 THEN parts[1]
    ELSE parts[1] \o <<"\n">> \o Join(Tail(parts))

\* _message_text
_message_text(message) ==
    IF message.content.kind = "str" THEN message.content.text
    ELSE IF message.content.kind = "list"
    THEN str_strip(Join(Parts(message.content.items)))
    ELSE <<"N", "o", "n", "e">>

\* the messages in the order of the list
reversed_not(messages) == messages

\* reversed(messages)
reversed(messages) == [i \in DOMAIN messages |-> messages[Len(messages) + 1 - i]]

\* str(result): the text of the whole result, which is never empty
StrResult == <<"{", "}">>

\* invoke_agent returns text
AgentReturn(text) == agent' = [agent EXCEPT !.pc = "done", !.out = text]

\* the agent is invoked and the shape of its result tested
Invoke ==
    /\ agent.pc = "invoke"
    /\ IF ~agent.result.dict THEN AgentReturn(StrResult)
       ELSE IF agent.result.messages.kind = "list" /\ agent.result.messages.items # <<>>
       THEN agent' = [agent EXCEPT !.pc = "scan",
                                   !.todo = reversed(agent.result.messages.items)]
       ELSE agent' = [agent EXCEPT !.pc = "output"]
    /\ UNCHANGED <<call, tables, threads, tool, session>>

\* one pass of the loop over reversed(messages)
Scan ==
    /\ agent.pc = "scan"
    /\ IF agent.todo = <<>> THEN agent' = [agent EXCEPT !.pc = "output"]
       ELSE IF Head(agent.todo).type = "ai" /\ _message_text(Head(agent.todo)) # <<>>
       THEN AgentReturn(_message_text(Head(agent.todo)))
       ELSE agent' = [agent EXCEPT !.todo = Tail(@)]
    /\ UNCHANGED <<call, tables, threads, tool, session>>

\* the "output" entry of the result, or the whole result
Fallback ==
    /\ agent.pc = "output"
    /\ IF agent.result.output.has /\ agent.result.output.truthy
       THEN AgentReturn(agent.result.output.str)
       ELSE AgentReturn(StrResult)
    /\ UNCHANGED <<call, tables, threads, tool, session>>

NextAgent == Invoke \/ Scan \/ Fallback

\* ------------------------------------------------------------ the inputs
\* parentheses around an operand that is not a single token
Wrap(x) == IF Len(x) = 1 THEN x ELSE <<LP>> \o x \o <<RP>>

RECURSIVE Exprs(_, _, _, _)
\* the texts of the expression trees of n nodes with the given leaves, unary
\* and binary operators, every compound operand in parentheses
Exprs(n, leaves, unops, binops) ==
    IF n = 1 THEN { <<l>> : l \in leaves }
    ELSE { <<u>> \o Wrap(x) : u \in unops, x \in Exprs(n - 1, leaves, unops, binops) }
         \cup UNION { { Wrap(x) \o <<o>> \o Wrap(y) :
                          o \in binops,
                          x \in Exprs(i, leaves, unops, binops),
                          y \in Exprs(n - 1 - i, leaves, unops, binops) } :
                      i \in 1 .. (n - 2) }

\* the texts of the trees of at most MaxNodes nodes
Trees(leaves, unops, binops) ==
    UNION { Exprs(n, leaves, unops, binops) : n \in 1 .. MaxNodes }

RECURSIVE Texts(_, _)
\* every sequence of n tokens
Texts(n, toks) ==
    IF n = 0 THEN {<<>>}
    ELSE { Append(x, tk) : x \in Texts(n - 1, toks), tk \in toks }

RECURSIVE Flat(_, _, _)
\* the texts without parentheses of n operands joined by binary operators
Flat(n, operands, binops) ==
    IF n = 1 THEN operands
    ELSE { x \o <<o>> \o a : x \in Flat(n - 1, operands, binops),
                             o \in binops, a \in operands }

\* a literal above the largest float, written as a float (1e999) and as an int
HugeFloat == FloatTok(1, Digits + MaxExp)

HugeInt == IntTok(1, Digits + MaxExp)

\* the largest decade of the format (1e308)
BigFloat == FloatTok(9, Digits + MaxExp - 1)

\* an int with one digit more than a float keeps (2^53 + 1)
LongInt == IntTok(Pow10(Digits) + 1, 0)

\* 1e-05: a float that repr writes with an exponent
SmallFloat == FloatTok(1, 0 - 5)

Half == FloatTok(5, 0 - 1)

Lit(n) == IntTok(n, 0)

\* texts with constructs outside the whitelist and literals of every class
WhitelistTexts ==
    Trees({Lit(1), NameTok("x"), StrTok, KeywordTok("True")},
          {OpTok("-"), OpTok("~")}, {OpTok("+"), OpTok("//")})
    \cup { <<tk>> : tk \in {ImagTok, KeywordTok("None"), KeywordTok("False"),
                            HugeInt, HugeFloat, LongInt} }

\* unstructured texts: most are no expression
RawTexts ==
    UNION { Texts(n, {Lit(1), NameTok("f"), OpTok("+"), OpTok("**"), OpTok("<"), LP, RP}) :
            n \in 0 .. MaxTokens }

\* a chain of signs deeper than the interpreter's recursion limit
DeepText == [i \in 1 .. RecursionLimit |-> OpTok("-")] \o <<Lit(1)>>

\* divisions and products of zero, one and the extreme floats
DivTexts ==
    Trees({Lit(0), Lit(1), BigFloat, HugeFloat}, {OpTok("-")}, {OpTok("/"), OpTok("*")})

\* powers with negative bases and fractional exponents
PowTexts ==
    Trees({Lit(0), Lit(2), Half, BigFloat}, {OpTok("-")}, {OpTok("**"), OpTok("+")})

\* remainders of operands of both signs
ModTexts ==
    Trees({Lit(7), Lit(3), Half, SmallFloat}, {OpTok("-")}, {OpTok("%")})

\* results of every size
RenderTexts ==
    Trees({Lit(3), Half, SmallFloat, BigFloat}, {OpTok("-")}, {OpTok("*"), OpTok("/")})

\* at most this many operands in a text without parentheses
MaxOperands == 3

FlatOperands == {<<Lit(2)>>, <<Lit(3)>>, <<Lit(4)>>}

SignedOperands == FlatOperands \cup {<<OpTok("-"), Lit(2)>>}

FlatOps == {OpTok("+"), OpTok("-"), OpTok("*"), OpTok("/"), OpTok("**"), OpTok("%")}

\* a pair of operands in parentheses on either side of an operator
GroupedTexts ==
    LET pairs == { <<LP>> \o x \o <<RP>> : x \in Flat(2, SignedOperands, FlatOps) }
    IN  { x \o <<o>> \o a : x \in pairs, o \in FlatOps, a \in FlatOperands }
        \cup { a \o <<o>> \o x : a \in FlatOperands, o \in FlatOps, x \in pairs }

\* the difference of two neighbouring ints of which one is no float
\* (2^53 + 1 and 2^53)
CancelText == <<LongInt, OpTok("-"), IntTok(Pow10(Digits), 0)>>

\* the texts of arithmetic in the usual notation
FlatTexts ==
    UNION { Flat(n, FlatOperands, FlatOps) : n \in 1 .. MaxOperands }
    \cup Flat(2, SignedOperands, FlatOps) \cup GroupedTexts \cup {CancelText}

Inputs ==
    WhitelistTexts \cup RawTexts \cup {DeepText} \cup DivTexts \cup PowTexts
    \cup ModTexts \cup RenderTexts

Init == \E x \in Inputs : InitWith(x)

Spec == Init /\ [][Next]_vars

InitWhitelist == \E x \in WhitelistTexts : InitWith(x)

SpecWhitelist == InitWhitelist /\ [][Next]_vars

InitDiv == \E x \in DivTexts : InitWith(x)

SpecDiv == InitDiv /\ [][Next]_vars

InitPow == \E x \in PowTexts : InitWith(x)

SpecPow == InitPow /\ [][Next]_vars

InitMod == \E x \in ModTexts : InitWith(x)

SpecMod == InitMod /\ [][Next]_vars

InitRender == \E x \in RenderTexts : InitWith(x)

SpecRender == InitRender /\ [][Next]_vars

InitFlat == \E x \in FlatTexts : InitWith(x)

SpecFlat == InitFlat /\ [][Next]_vars

\* the expressions of calls that run side by side: results of both renderings,
\* every failure of the evaluation, a text that does not parse
ThreadTexts ==
    { <<Lit(1)>>,
      <<Lit(2), OpTok("+"), Lit(3), OpTok("*"), Lit(4)>>,
      <<Lit(1), OpTok("/"), Lit(2)>>,
      <<Lit(1), OpTok("/"), Lit(0)>>,
      <<Lit(1), OpTok("+"), NameTok("x")>>,
      <<LP, OpTok("-"), Lit(2), RP, OpTok("**"), Half>>,
      <<Lit(1), OpTok("+")>>,
      DeepText }

\* a call that runs alone, and the expression of the call that will run beside
\* its repetition
InitThreads ==
    \E x \in ThreadTexts, y \in ThreadTexts :
        /\ Begin(x)
        /\ tables = Tables
        /\ threads = [pc |-> "alone", second |-> y, alone |-> NoOutput,
                      self |-> 1, waiting |-> Fresh(y), mixed |-> FALSE]
        /\ tool = Idle
        /\ session = Idle
        /\ agent = Idle

SpecThreads == InitThreads /\ [][NextThreads]_vars

\* expressions in which a failing operand and an unsupported node meet in
\* either order
OrderTexts ==
    Trees({Lit(1), Lit(0), NameTok("x")}, {OpTok("-")}, {OpTok("/"), OpTok("+")})

InitOrder == \E x \in OrderTexts : InitWith(x)

SpecOrder == InitOrder /\ [][Next]_vars

\* the number of lines on the standard input of main
MaxLines == 3

\* the lines typed: words, blank lines, the two words that end the loop in
\* several spellings, a word that begins with one of them
Lines ==
    { <<"h", "i">>, <<" ", "h", "i", " ">>, <<>>, <<" ", "\t">>,
      <<"e", "x", "i", "t">>, <<" ", "E", "x", "i", "t", " ">>,
      <<"Q", "U", "I", "T">>, <<"e", "x", "i", "t", "s">> }

\* args.prompt: None without --prompt, else the text given
Prompts ==
    { [given |-> FALSE, text |-> <<>>], [given |-> TRUE, text |-> <<>>],
      [given |-> TRUE, text |-> <<"h", "i">>], [given |-> TRUE, text |-> <<" ">>] }

\* main has built the agent
InitSession ==
    /\ NotCalled
    /\ tables = Tables
    /\ threads = Idle
    /\ tool = Idle
    /\ agent = Idle
    /\ \E prompt \in Prompts, n \in 0 .. MaxLines :
          \E lines \in Texts(n, Lines) :
              session = [pc |-> "prompt", prompt |-> prompt, lines |-> lines,
                         reads |-> 0, invoked |-> <<>>, out |-> "none"]

SpecSession == InitSession /\ [][NextSession]_vars

\* the number of messages in a result
MaxMessages == 3

\* the contents of the messages of the model
Contents ==
    { StrContent(<<"a">>), StrContent(<<>>), StrContent(<<" ">>), NoneContent,
      ListContent(<<>>),
      ListContent(<<StrItem(<<" ">>), DictItem("text", TRUE, <<"\n">>)>>),
      ListContent(<<StrItem(<<" ", "a">>), DictItem("image", TRUE, <<"x">>),
                    DictItem("text", FALSE, <<>>), DictItem("text", TRUE, <<"b", " ">>)>>) }

\* the messages of a result
Messages ==
    { Message("ai", c) : c \in Contents }
        \cup { Message("human", StrContent(<<"q">>)), Message("tool", StrContent(<<"t">>)) }

\* result.get("messages"): no entry, a tuple, or a list
MessageLists ==
    { [kind |-> "absent", items |-> <<>>],
      [kind |-> "tuple", items |-> <<Message("ai", StrContent(<<"a">>))>>] }
        \cup { [kind |-> "list", items |-> m] :
                   m \in UNION { Texts(n, Messages) : n \in 0 .. MaxMessages } }

\* the "output" entry of a result: none, "", "o", 0, 7
Outputs ==
    { [has |-> FALSE, truthy |-> FALSE, str |-> <<>>],
      [has |-> TRUE, truthy |-> FALSE, str |-> <<>>],
      [has |-> TRUE, truthy |-> TRUE, str |-> <<"o">>],
      [has |-> TRUE, truthy |-> FALSE, str |-> <<"0">>],
      [has |-> TRUE, truthy |-> TRUE, str |-> <<"7">>] }

\* invoke_agent is called; the agent will return a dict or something else
InitAgent ==
    /\ NotCalled
    /\ tables = Tables
    /\ threads = Idle
    /\ tool = Idle
    /\ session = Idle
    /\ \E dict \in BOOLEAN, messages \in MessageLists, out \in Outputs :
          /\ ~dict => messages.kind = "absent" /\ ~out.has
          /\ agent = [pc |-> "invoke",
                      result |-> [dict |-> dict, messages |-> messages, output |-> out],
                      todo |-> <<>>, out |-> <<>>]

SpecAgent == InitAgent /\ [][NextAgent]_vars

\* ------------------------------------------------------------ the claims
Done == pc = "done"

\* calculator has returned a text that begins with "Error:"
IsErrorText(out) == out.kind = "return" /\ Len(out.text) >= 1 /\ out.text[1] = "Error:"

\* calculator has returned the text of a number
Succeeded == pc = "done" /\ exc = Nothing /\ output.kind = "return"

RECURSIVE Nodes(_)
\* the nodes of a tree, the root first
Nodes(n) ==
    <<n>> \o
    ( CASE n.type = "Expression" -> Nodes(n.body)
        [] n.type \in {"BinOp", "Compare"} -> Nodes(n.left) \o Nodes(n.right)
        [] n.type = "UnaryOp" -> Nodes(n.operand)
        [] n.type = "Call" ->
             Nodes(n.func) \o (IF n.args = <<>> THEN <<>> ELSE Nodes(n.args[1]))
        [] OTHER -> <<>> )

\* the nodes of the expression that was parsed
BodyNodes == IF parsed.type = "Expression" THEN Nodes(parsed.body) ELSE <<>>

\* a numeric literal, a binary operation with one of + - * / ** %, or a
\* unary + or -
Whitelisted(n) ==
    \/ n.type = "Constant" /\ n.value.cls \in {"int", "float"}
    \/ n.type = "BinOp" /\ n.op \in {"Add", "Sub", "Mult", "Div", "Pow", "Mod"}
    \/ n.type = "UnaryOp" /\ n.op \in {"UAdd", "USub"}

\* C1: an expression whose tree has a node outside the whitelist, wherever it
\* sits, makes the calculator return a failure, never a number.
C1_OutsideWhitelistFails ==
    (Done /\ \E i \in DOMAIN BodyNodes : ~Whitelisted(BodyNodes[i]))
        => IsErrorText(output)

NumberChars ==
    {"0", "1", "2", "3", "4", "5", "6", "7", "8", "9", "-", "+", ".", "e",
     "i", "n", "f", "a"}

\* C2: no exception escapes calculator: whatever fails while parsing,
\* evaluating or formatting, the call returns a text, which is a rendered
\* number or begins with "Error:".
C2_NoExceptionEscapes ==
    Done => /\ output.kind = "return"
            /\ \/ IsErrorText(output)
               \/ /\ output.text # <<>>
                  /\ \A i \in DOMAIN output.text : output.text[i] \in NumberChars

\* C2 witness: the failure of result.is_integer() on a complex result, after
\* the evaluation has returned, comes back as an error text.
C2_Witness ==
    Done /\ exc.type = "AttributeError" /\ result.k = "complex" /\ IsErrorText(output)

\* C3: a division whose right operand has evaluated to zero raises, and the
\* calculator returns an error text for the expression, never a number.
C3_DivisionByZeroFails ==
    \A i \in DOMAIN applied :
        (applied[i].op = "Div" /\ IsZero(applied[i].args[2]))
            => /\ applied[i].out.kind = "raise"
               /\ Done => IsErrorText(output)

\* C3 witness: a zero that was computed by an earlier operation is the right
\* operand of a division, and the calculator has returned an error text.
C3_Witness ==
    /\ Done
    /\ Len(applied) >= 2
    /\ applied[Len(applied)].op = "Div"
    /\ IsZero(applied[Len(applied)].args[2])
    /\ applied[Len(applied) - 1].out.kind = "value"
    /\ IsZero(applied[Len(applied) - 1].out.value)
    /\ IsErrorText(output)

\* C4: a literal that is no int and no float (a string, True or False, a
\* complex literal, None) makes the evaluation fail; it is never converted
\* to a number.
C4_NonNumericLiteralFails ==
    (Done /\ \E i \in DOMAIN BodyNodes :
                /\ BodyNodes[i].type = "Constant"
                /\ BodyNodes[i].value.cls \notin {"int", "float"})
        => IsErrorText(output)

\* C5: a power with a negative base and a fractional exponent raises at that
\* operation: no complex value is returned by the evaluator or passed on as
\* an operand.
C5_ComplexPowerFails ==
    /\ result.k # "complex"
    /\ \A i \in DOMAIN applied :
          /\ \A j \in DOMAIN applied[i].args : applied[i].args[j].k # "complex"
          /\ ( /\ applied[i].op = "Pow"
               /\ applied[i].args[1].k = "fin" /\ applied[i].args[1].m < 0
               /\ applied[i].args[2].k = "fin" /\ ~IsIntegral(applied[i].args[2]) )
                 => applied[i].out.kind = "raise"

\* C6: a successful evaluation yields a finite number, never inf or nan.
C6_ResultFinite == Succeeded => result.k = "fin"

\* names of the host language's types and of their attributes
InternalNames == {"float", "int", "complex", "is_integer"}

\* C7: the error text of a failing expression is generic: it has no name of
\* a type of the host language in it.
C7_ErrorTextGeneric ==
    (Done /\ IsErrorText(output))
        => \A i \in DOMAIN output.text : output.text[i] \notin InternalNames

\* ----------------------------------------------- the text of a number
IsDigitChar(c) == c \in {"0", "1", "2", "3", "4", "5", "6", "7", "8", "9"}

DigitVal(c) == CHOOSE d \in 0 .. 9 : Digit(d) = c

RECURSIVE NatOf(_)
\* the natural number a sequence of digits denotes
NatOf(ds) ==
    IF ds = <<>> THEN 0
    ELSE 10 * NatOf(SubSeq(ds, 1, Len(ds) - 1)) + DigitVal(ds[Len(ds)])

Unsigned(text) == IF text # <<>> /\ text[1] = "-" THEN Tail(text) ELSE text

TextSign(text) == IF text # <<>> /\ text[1] = "-" THEN 0 - 1 ELSE 1

\* the first position of c in text, 0 when it has none
IndexOf(text, c) ==
    IF \E i \in DOMAIN text : text[i] = c
    THEN CHOOSE i \in DOMAIN text : text[i] = c /\ \A j \in 1 .. (i - 1) : text[j] # c
    ELSE 0

\* the text of an integer: digits after an optional sign
IsIntText(text) ==
    /\ Unsigned(text) # <<>>
    /\ \A i \in DOMAIN Unsigned(text) : IsDigitChar(Unsigned(text)[i])

HasPoint(text) == \E i \in DOMAIN text : text[i] = "."

HasExponent(text) == \E i \in DOMAIN text : text[i] = "e"

\* the number a decimal text denotes, read exactly: digits with an optional
\* point, an optional exponent, or inf or nan
DenotedBy(text) ==
    LET u == Unsigned(text)
        ie == IndexOf(u, "e")
        man == IF ie = 0 THEN u ELSE SubSeq(u, 1, ie - 1)
        ex == IF ie = 0 THEN 0
              ELSE (IF u[ie + 1] = "-" THEN 0 - 1 ELSE 1) * NatOf(SubSeq(u, ie + 2, Len(u)))
        ip == IndexOf(man, ".")
        whole == IF ip = 0 THEN man ELSE SubSeq(man, 1, ip - 1)
        frac == IF ip = 0 THEN <<>> ELSE SubSeq(man, ip + 1, Len(man))
        c == Strip(NatOf(whole \o frac), ex - Len(frac))
    IN  IF u = <<"i", "n", "f">> THEN Inf(TextSign(text))
        ELSE IF u = <<"n", "a", "n">> THEN NaN
        ELSE Fin(TextSign(text) * c.m, c.e)

\* C8: the text of a successful result is that of an integer exactly when
\* the result has no fractional part; otherwise it is the repr of the float,
\* which has a decimal point or, for a small magnitude, an exponent and no
\* point (1e-05), or is inf or nan; the text denotes the result.
C8_Rendering ==
    Succeeded =>
        /\ IsIntText(output.text) <=> IsIntegral(result)
        /\ (result.k = "fin" /\ ~IsIntegral(result))
              => (HasPoint(output.text) \/ HasExponent(output.text))
        /\ DenotedBy(output.text) = result

\* C8 witness: a result with a fractional part is rendered with an exponent
\* and without a decimal point.
C8_Witness ==
    /\ Succeeded
    /\ result.k = "fin" /\ ~IsIntegral(result)
    /\ HasExponent(output.text) /\ ~HasPoint(output.text)
    /\ DenotedBy(output.text) = result

\* C8 as stated: a finite result is rendered without a decimal point exactly
\* when it has no fractional part, and the text denotes the result.
C8_PointIffFraction ==
    (Succeeded /\ result.k = "fin") =>
        /\ ~HasPoint(output.text) <=> IsIntegral(result)
        /\ DenotedBy(output.text) = result

\* ------------------------------------------------- exact arithmetic
RECURSIVE Gcd(_, _)
Gcd(a, b) == IF b = 0 THEN a ELSE Gcd(b, a % b)

\* floor(x / y) for integers, y # 0
FloorDiv(x, y) == IF y > 0 THEN x \div y ELSE (0 - x) \div (0 - y)

SetMax(S) == CHOOSE x \in S : \A y \in S : y <= x

SetMin(S) == CHOOSE x \in S : \A y \in S : x <= y

\* numerators and denominators the exact arithmetic keeps
FracCap == Pow10(4)

\* the float equal to n / d (d > 0, in lowest terms), NaN when there is none
FloatOfFrac(n, d) ==
    LET ks == { k \in 0 .. ExpLow : Pow10(k) % d = 0 }
    IN  IF ks = {} THEN NaN
        ELSE LET k == SetMin(ks)
                 c == Strip(Abs(n) * (Pow10(k) \div d), 0 - k)
             IN  IF NumDigits(c.m) <= Digits /\ NumDigits(c.m) + c.e <= Digits + MaxExp
                 THEN Fin(Sgn(n) * c.m, c.e)
                 ELSE NaN

\* A number of the exact arithmetic: the fraction n / d in lowest terms; def
\* is false when the arithmetic does not define or does not keep the number;
\* rep tells that it and every number it was computed from is a float.
Undefined == [def |-> FALSE, n |-> 0, d |-> 1, rep |-> FALSE]

Frac(n, d, rep) ==
    IF d = 0 THEN Undefined
    ELSE LET g == Gcd(Abs(n), Abs(d))
             n1 == Sgn(d) * Sgn(n) * (Abs(n) \div g)
             d1 == Abs(d) \div g
         IN  IF Abs(n1) > FracCap \/ d1 > FracCap THEN Undefined
             ELSE [def |-> TRUE, n |-> n1, d |-> d1,
                   rep |-> rep /\ FloatOfFrac(n1, d1).k = "fin"]

FracAdd(a, b) ==
    IF a.def /\ b.def THEN Frac(a.n * b.d + b.n * a.d, a.d * b.d, a.rep /\ b.rep)
    ELSE Undefined

FracNeg(a) == IF a.def THEN [a EXCEPT !.n = 0 - a.n] ELSE Undefined

FracSub(a, b) == FracAdd(a, FracNeg(b))

FracMul(a, b) ==
    IF a.def /\ b.def THEN Frac(a.n * b.n, a.d * b.d, a.rep /\ b.rep) ELSE Undefined

FracDiv(a, b) ==
    IF a.def /\ b.def /\ b.n # 0 THEN Frac(a.n * b.d, a.d * b.n, a.rep /\ b.rep)
    ELSE Undefined

\* a - b * floor(a / b)
FracMod(a, b) ==
    IF a.def /\ b.def /\ b.n # 0
    THEN LET q == FloorDiv(a.n * b.d, a.d * b.n)
         IN  IF Abs(q) > FracCap THEN Undefined
             ELSE FracSub(a, FracMul(b, Frac(q, 1, TRUE)))
    ELSE Undefined

RECURSIVE FracPowNat(_, _)
FracPowNat(a, k) == IF k = 0 THEN Frac(1, 1, TRUE) ELSE FracMul(a, FracPowNat(a, k - 1))

\* a ^ b for an integer b; a fractional power is not kept
FracPow(a, b) ==
    IF ~(a.def /\ b.def) \/ b.d # 1 \/ Abs(b.n) > 16 THEN Undefined
    ELSE IF b.n >= 0 THEN FracPowNat(a, b.n)
    ELSE FracDiv(Frac(1, 1, TRUE), FracPowNat(a, 0 - b.n))

\* the number a numeric literal denotes
FracOfToken(tk) ==
    IF Abs(tk.e) > 4 \/ Abs(tk.m) > FracCap THEN Undefined
    ELSE IF tk.e >= 0 THEN Frac(tk.m * Pow10(tk.e), 1, TRUE)
    ELSE Frac(tk.m, Pow10(0 - tk.e), TRUE)

\* ------------------------------- the value of a text in the usual notation
\* how many parentheses are open after token i
Depth(toks, i) ==
    Cardinality({ j \in 1 .. i : toks[j].t = "(" })
    - Cardinality({ j \in 1 .. i : toks[j].t = ")" })

\* the positions outside every parenthesis of the operators of ops that
\* stand after an operand
Binary(toks, ops) ==
    { i \in 2 .. Len(toks) :
        /\ IsOp(toks[i], ops)
        /\ Depth(toks, i) = 0
        /\ toks[i - 1].t \in {"int", "float", ")"} }

RECURSIVE MathSum(_)
RECURSIVE MathTerm(_)
RECURSIVE MathFactor(_)
RECURSIVE MathPower(_)
RECURSIVE MathAtom(_)

\* a sum splits at its last + or -: these group to the left
MathSum(toks) ==
    LET S == Binary(toks, {"+", "-"})
    IN  IF S = {} THEN MathTerm(toks)
        ELSE LET i == SetMax(S)
                 l == MathSum(SubSeq(toks, 1, i - 1))
                 r == MathTerm(SubSeq(toks, i + 1, Len(toks)))
             IN  IF toks[i].s = "+" THEN FracAdd(l, r) ELSE FracSub(l, r)

\* a term splits at its last *, / or %
MathTerm(toks) ==
    LET S == Binary(toks, {"*", "/", "%"})
    IN  IF S = {} THEN MathFactor(toks)
        ELSE LET i == SetMax(S)
                 l == MathTerm(SubSeq(toks, 1, i - 1))
                 r == MathFactor(SubSeq(toks, i + 1, Len(toks)))
             IN  CASE toks[i].s = "*" -> FracMul(l, r)
                   [] toks[i].s = "/" -> FracDiv(l, r)
                   [] OTHER -> FracMod(l, r)

\* a sign applies to the power on its right
MathFactor(toks) ==
    IF toks = <<>> THEN Undefined
    ELSE IF IsOp(toks[1], {"-"}) THEN FracNeg(MathFactor(Tail(toks)))
    ELSE IF IsOp(toks[1], {"+"}) THEN MathFactor(Tail(toks))
    ELSE MathPower(toks)

\* a power splits at its first **: these group to the right
MathPower(toks) ==
    LET S == Binary(toks, {"**"})
    IN  IF S = {} THEN MathAtom(toks)
        ELSE LET i == SetMin(S)
             IN  FracPow(MathAtom(SubSeq(toks, 1, i - 1)),
                         MathFactor(SubSeq(toks, i + 1, Len(toks))))

MathAtom(toks) ==
    IF Len(toks) = 1 /\ toks[1].t \in {"int", "float"} THEN FracOfToken(toks[1])
    ELSE IF /\ Len(toks) >= 3
            /\ toks[1].t = "("
            /\ toks[Len(toks)].t = ")"
            /\ \A j \in 1 .. (Len(toks) - 1) : Depth(toks, j) > 0
         THEN MathSum(SubSeq(toks, 2, Len(toks) - 1))
    ELSE Undefined

\* the mathematical value of the expression
MathValue == MathSum(expression)

\* C9: an expression of numeric literals, parentheses, signs and + - * / **
\* % is evaluated under the standard precedence, + - * / % grouping to the
\* left and ** to the right, each node by the float operation on the values
\* of its children: whenever every literal and every intermediate value is
\* exactly a float, the result is the mathematical value of the expression.
C9_ExactWhenRepresentable ==
    (Done /\ MathValue.def /\ MathValue.rep)
        => /\ Succeeded
           /\ result = FloatOfFrac(MathValue.n, MathValue.d)

\* C9 witness: 2 + 3 * 4 has been evaluated to 14.
C9_Witness ==
    /\ Succeeded
    /\ expression = <<Lit(2), OpTok("+"), Lit(3), OpTok("*"), Lit(4)>>
    /\ MathValue.def /\ MathValue.rep
    /\ result = Fin(14, 0)

\* C9 as stated, for the values a float can hold: whenever the mathematical
\* value of the expression is exactly a float, it is the result.
C9_MathematicalValue ==
    (Done /\ MathValue.def /\ FloatOfFrac(MathValue.n, MathValue.d).k = "fin")
        => /\ Succeeded
           /\ result = FloatOfFrac(MathValue.n, MathValue.d)

\* ------------------------------------------------------- the remainder
\* the applications of % to a finite a and a finite b # 0
ModApplied ==
    { i \in DOMAIN applied :
        /\ applied[i].op = "Mod"
        /\ applied[i].args[1].k = "fin"
        /\ applied[i].args[2].k = "fin" /\ applied[i].args[2].m # 0 }

\* the common exponent of the floats of a set
LowExp(S) == SetMin({ v.e : v \in S })

\* the integer v / 10^e0 of a finite float v with v.e >= e0
Scaled(v, e0) == v.m * Pow10(v.e - e0)

\* a - b * floor(a / b) in units of 10^e0
FlooredRem(a, b, e0) ==
    Scaled(a, e0) - Scaled(b, e0) * FloorDiv(Scaled(a, e0), Scaled(b, e0))

First == IF threads.self = 1 THEN Context ELSE threads.waiting

\* the call of thread 2
Second == IF threads.self = 2 THEN Context ELSE threads.waiting

\* C11: a call that runs beside another call, whatever the interleaving and
\* whether or not the other call fails, returns what the call of the same
\* expression returned when it ran alone, and no call changes the dispatch
\* tables.
C11_CallsIndependent ==
    /\ tables = Tables
    /\ (threads.pc = "together" /\ First.pc = "done")
           => First.output = threads.alone

\* C11 witness: two calls have run interleaved, both in the middle of their
\* evaluation at a switch; the first returned the result it returns alone
\* and the second failed.
C11_Witness ==
    /\ threads.pc = "together"
    /\ threads.mixed
    /\ First.pc = "done"
    /\ Second.pc = "done"
    /\ First.output = threads.alone
    /\ First.output.kind = "return"
    /\ ~IsErrorText(First.output)
    /\ IsErrorText(Second.output)


\* ---- C12
\* C12: whatever the input and whichever step fails, transcribe_audio returns
\* text: the text that names the saved transcript, or an error message; no
\* exception leaves it.
C12_FailuresReturned ==
    tool.pc = "done" =>
        /\ tool.out.kind = "return"
        /\ \/ tool.out.text[1] = "Error:"
           \/ tool.saved /\ tool.out.text[1] = "Transcript"


\* ---- C13
\* the failure _eval raises for a node it does not support
Unsupported ==
    Raise("ValueError", <<"Only", "numeric", "math", "expressions", "are", "supported.">>)

\* C13: when the tree has a node that is not supported, the call fails with
\* the unsupported-construct failure and no dispatch-table function has been
\* applied.
C13_WhitelistBeforeEvaluation ==
    (Done /\ \E i \in DOMAIN BodyNodes : ~Whitelisted(BodyNodes[i]))
        => /\ applied = <<>>
           /\ exc = Unsupported
           /\ output.kind = "return"
           /\ output.text = <<"Error:">> \o Unsupported.msg

\* ---- C14
\* an outcome together with the applications of operator functions that led
\* to it
After(o, h) ==
    [kind |-> o.kind, value |-> o.value, type |-> o.type, msg |-> o.msg, hist |-> h]

\* the application of the operator function of node n on args
Applies(n, args, out, h) ==
    After(out, Append(h, [op |-> n.op, args |-> args, out |-> out]))

RECURSIVE LeftFirst(_), ThenRight(_, _), ThenApply(_, _, _), ThenNegate(_, _)
\* the outcome of a node in left-to-right depth-first order: the left operand
\* to its end, the right operand only if the left has a value, the operator
\* function only on two values; the first failure met is the outcome
LeftFirst(n) ==
    CASE n.type = "Constant" /\ IsInstance(n.value, {"int", "float"}) ->
             After(float(n.value), <<>>)
      [] n.type = "BinOp" /\ n.op \in _ALLOWED_BIN_OPS_KEYS ->
             ThenRight(n, LeftFirst(n.left))
      [] n.type = "UnaryOp" /\ n.op \in _ALLOWED_UNARY_OPS_KEYS ->
             ThenNegate(n, LeftFirst(n.operand))
      [] OTHER -> After(Unsupported, <<>>)

ThenRight(n, l) ==
    IF l.kind = "raise" THEN l ELSE ThenApply(n, l, LeftFirst(n.right))

ThenApply(n, l, r) ==
    IF r.kind = "raise" THEN After(r, l.hist \o r.hist)
    ELSE Applies(n, <<l.value, r.value>>,
                 CHOOSE out \in _ALLOWED_BIN_OPS(n.op, l.value, r.value) : TRUE,
                 l.hist \o r.hist)

ThenNegate(n, v) ==
    IF v.kind = "raise" THEN v
    ELSE Applies(n, <<v.value>>,
                 CHOOSE out \in _ALLOWED_UNARY_OPS(n.op, v.value) : TRUE, v.hist)

\* the applications made so far are the first of those of w
Begins(w) == Len(applied) <= Len(w.hist) /\ applied = SubSeq(w.hist, 1, Len(applied))

\* the call has ended as w
EndsAs(w) ==
    /\ applied = w.hist
    /\ w.kind = "raise" => exc = Raise(w.type, w.msg)
    /\ w.kind = "value" => result = w.value /\ exc = Nothing

\* the frame holds the value of its left operand
HoldsLeft(f, l) == l.kind = "value" /\ f.left = l.value

\* the frames of _eval: the callee of a frame that waits for its left operand
\* evaluates node.left, the callee of a frame that waits for its right
\* operand evaluates node.right, and the latter frame holds the value of the
\* left operand
FramesInOrder ==
    \A i \in 1 .. Len(stack) :
        /\ stack[i].phase = "right" => HoldsLeft(stack[i], LeftFirst(stack[i].node.left))
        /\ (i < Len(stack) /\ stack[i].phase = "left")
              => stack[i + 1].node = stack[i].node.left
        /\ (i < Len(stack) /\ stack[i].phase = "right")
              => stack[i + 1].node = stack[i].node.right
        /\ (i = Len(stack) /\ stack[i].phase # "enter") => ret.kind = "value"

\* C14: the left operand of a binary node is evaluated to its end before the
\* right one starts, the operator function is applied after both have
\* returned, and the failure reported is the first one met in left-to-right
\* depth-first order.
C14_LeftThenRight ==
    parsed.type = "Expression" =>
        /\ FramesInOrder
        /\ Begins(LeftFirst(parsed.body))
        /\ (Done /\ exc.type # "RecursionError") => EndsAs(LeftFirst(parsed.body))

\* C14 witness: both operands of the root fail when evaluated, in different
\* ways, and the call has reported the failure of the left one.
C14_Witness ==
    /\ Done
    /\ parsed.type = "Expression"
    /\ parsed.body.type = "BinOp"
    /\ LeftFirst(parsed.body.left).kind = "raise"
    /\ LeftFirst(parsed.body.right).kind = "raise"
    /\ LeftFirst(parsed.body.left).type # LeftFirst(parsed.body.right).type
    /\ exc.type = LeftFirst(parsed.body.left).type
    /\ IsErrorText(output)


\* ---- C15
\* a line that ends the loop
IsExit(line) ==
    str_lower(str_strip(line)) \in {<<"e", "x", "i", "t">>, <<"q", "u", "i", "t">>}

\* the number of lines up to the first that ends the loop, that one included
UpToExit(lines) ==
    IF \E i \in DOMAIN lines : IsExit(lines[i])
    THEN CHOOSE i \in DOMAIN lines :
             IsExit(lines[i]) /\ \A j \in 1 .. (i - 1) : ~IsExit(lines[j])
    ELSE Len(lines)

RECURSIVE Asked(_)
\* the lines of which something is left after trimming, trimmed, in order,
\* up to the first line that ends the loop
Asked(lines) ==
    IF lines = <<>> \/ IsExit(Head(lines)) THEN <<>>
    ELSE IF str_strip(Head(lines)) = <<>> THEN Asked(Tail(lines))
    ELSE <<str_strip(Head(lines))>> \o Asked(Tail(lines))

\* C15: without --prompt the agent is invoked once for each line read before
\* the first exit or quit line that is not empty after trimming, in order,
\* with the trimmed text, and nothing is read after that line; with --prompt
\* the agent is invoked once, with the prompt, and no line is read.
C15_LoopAndPrompt ==
    /\ (session.pc # "idle" /\ ~session.prompt.given)
          => /\ session.reads <= UpToExit(session.lines)
             /\ session.invoked = Asked(SubSeq(session.lines, 1, session.reads))
             /\ (session.pc = "done" /\ session.out = "return")
                   => /\ session.reads = UpToExit(session.lines)
                      /\ IsExit(session.lines[session.reads])
    /\ (session.pc # "idle" /\ session.prompt.given)
          => /\ session.reads = 0
             /\ session.pc = "done" => session.invoked = <<session.prompt.text>>


\* ---- C16
\* the messages of the result, if it is a dict with a list of them
Listed ==
    IF agent.result.dict /\ agent.result.messages.kind = "list"
    THEN agent.result.messages.items ELSE <<>>

\* message i is an AI message of which the extracted text is not empty
Speaks(i) == Listed[i].type = "ai" /\ _message_text(Listed[i]) # <<>>

\* the last message that speaks
Latest == CHOOSE i \in DOMAIN Listed : Speaks(i) /\ \A j \in (i + 1) .. Len(Listed) : ~Speaks(j)

\* C16: invoke_agent returns the text of the latest AI message with a text;
\* if there is none, the "output" entry if it is truthy; if there is none
\* either, or the result is not a dict, the string form of the result.
C16_LatestAiText ==
    agent.pc = "done" =>
        IF \E i \in DOMAIN Listed : Speaks(i)
        THEN agent.out = _message_text(Listed[Latest])
        ELSE IF agent.result.dict /\ agent.result.output.has /\ agent.result.output.truthy
        THEN agent.out = agent.result.output.str
        ELSE agent.out = StrResult

\* C16 witness: the joined and stripped text of the first of three messages
\* has been returned, past a tool message and an AI message whose list
\* content yields no text, although the result has a truthy "output" entry.
C16_Witness ==
    /\ agent.pc = "done"
    /\ Len(Listed) = 3
    /\ Speaks(1)
    /\ Listed[2].type = "ai" /\ Listed[2].content.kind = "list"
    /\ Listed[2].content.items # <<>>
    /\ Listed[3].type = "tool"
    /\ agent.result.output.truthy
    /\ agent.out = _message_text(Listed[1])
    /\ agent.out = <<"a", "\n", "b">>

====
